---- MODULE Spec2Model ----
(***************************************************************************)
(* State-machine model of the eth-fraud-sentinel training service:         *)
(*   src/backend/api.py            POST /train handler and the result store *)
(*   src/backend/xgboost_fraud.py  load_and_prepare, engineer_features,     *)
(*                                 iqr_clip, train_xgb                      *)
(*   src/backend/random_forest_fraud.py  train_random_forest                *)
(*   src/backend/svm_fraud.py            train_svm                          *)
(*                                                                         *)
(* One request is followed from the uploaded tables to the stored result.  *)
(* Numbers that are reals in the program are kept exact: a quantile is     *)
(* carried times 4, an interval bound times 8, a mean or a score as a      *)
(* numerator/denominator pair, a probability in tenths.                    *)
(***************************************************************************)
EXTENDS Integers, Sequences, FiniteSets, TLC

(***************************************************************************)
(* Bounds of the model.                                                    *)
(***************************************************************************)
\* largest number of fraud rows in an uploaded feature table
MaxFraud == 9
\* legit rows of an uploaded feature table range over MinLegit..MaxLegit
MinLegit == 8
MaxLegit == 10
\* random seeds offered by a request: 0..MaxSeed
MaxSeed == 1
\* number of candidate configurations a search samples (n_iter, scaled down)
NIter == 2
\* the two sizes of the fraud-heavy feature table
SkewFraud == 14
SkewLegit == 2

(***************************************************************************)
(* Program constants.                                                      *)
(***************************************************************************)
\* SMOTE(k_neighbors=5), the library default used by SMOTE(random_state=...)
KNeighbors == 5
\* .head(10) of the two event rankings
EventsHead == 10
\* fi.head(50)
ImportancesHead == 50
\* METRICS_HISTORY keeps the last 24 entries
HistoryKeep == 24
\* ACTIVITY_LOG keeps the first 50 events
ActivityKeep == 50
\* proba >= 0.5, in tenths
Threshold == 5
\* random_state=42 hard-wired in train_xgb's RandomizedSearchCV
XgbSearchSeed == 42

(***************************************************************************)
(* The state.                                                              *)
(***************************************************************************)
VARIABLES
  req,       \* the request: model, no_tune, seed, the two uploaded tables
  pc,        \* the handler's position
  tab,       \* the table being prepared (a sequence of rows; << >> if none)
  counts,    \* << >> or << the set of counted addresses >>
  chosen,    \* the family whose train function runs ("" before dispatch)
  orig,      \* << >> or << original_total / original_fraud >>
  kept,      \* the rows that survived iqr_clip
  train,     \* X_train's rows
  test,      \* X_test's rows
  scaler,    \* << >> or << the fitted StandardScaler >>
  teScaled,  \* << >> or << the scaler state X_te was produced with >>
  synth,     \* the synthetic rows of the current balanced training fold
  balanced,  \* whether the current training fold has been resampled
  search,    \* << >> or << what the search did >>
  clf,       \* << >> or << the fitted classifier >>
  proba,     \* the scored rows with their probability (<< >> before)
  scored,    \* the rows and synthetic rows handed to predict_proba
  metrics,   \* << >> or << the metrics record >>
  calls,     \* number of fit_and_eval calls of this invocation
  trace,     \* the steps of this invocation, in order
  response,  \* << >> or << the returned metrics >>
  error,     \* the error raised ("" if none)
  store,     \* LATEST_METRICS, METRICS_HISTORY, ACTIVITY_LOG, MODEL_METRICS
  clock,     \* datetime.utcnow()
  runNo,     \* number of the invocation
  prev,      \* << >> or << what the previous invocation did >>
  fe,        \* engineer_features on its own: the table in, the table out
  svc,       \* the service around the store: requests in flight, readers
  clip       \* iqr_clip on its own: the frame in, the frame out

vars == << req, pc, tab, counts, chosen, orig, kept, train, test, scaler,
           teScaled, synth, balanced, search, clf, proba, scored, metrics,
           calls, trace, response, error, store, clock, runNo, prev,
           fe, svc, clip >>

\* the state outside one /train request's pipeline
aux == << fe, svc, clip >>

\* the variables of one training run, as left by the loader
runVars == << orig, kept, train, test, scaler, teScaled, synth, balanced,
              search, clf, proba, scored, metrics, calls >>

(***************************************************************************)
(* Small arithmetic helpers.                                               *)
(***************************************************************************)
Max2(a, b) == IF a >= b THEN a ELSE b
Min2(a, b) == IF a <= b THEN a ELSE b
Abs(a) == IF a >= 0 THEN a ELSE -a
CeilDiv(a, b) == (a + b - 1) \div b

RECURSIVE SumOver(_, _)
\* sum of f[i] for i in S
SumOver(S, f) ==
  IF S = {} THEN 0
  ELSE LET i == CHOOSE j \in S : TRUE IN f[i] + SumOver(S \ {i}, f)

\* the k-th smallest (1-based) of the values f[i], i in S
KthSmallest(S, f, k) ==
  LET vals == {f[i] : i \in S}
  IN CHOOSE v \in vals :
       /\ Cardinality({i \in S : f[i] < v}) < k
       /\ Cardinality({i \in S : f[i] <= v}) >= k

\* the members of S in increasing order
RECURSIVE SortedSeq(_)
SortedSeq(S) ==
  IF S = {} THEN << >>
  ELSE LET m == CHOOSE x \in S : \A y \in S : x <= y
       IN << m >> \o SortedSeq(S \ {m})

SeqRange(s) == {s[i] : i \in 1..Len(s)}
Head_n(s, n) == SubSeq(s, 1, Min2(n, Len(s)))
Tail_n(s, n) == SubSeq(s, Max2(1, Len(s) - n + 1), Len(s))


(***************************************************************************)
(* The uploaded tables.  A feature table has n = nFraud + nLegit rows, one *)
(* per address; row i is address i.  Its columns are the address column,   *)
(* the flag column (under one of its two names) and total_sent_value.      *)
(* The ledger is a list of edges, with or without its endpoint columns.    *)
(***************************************************************************)
\* value cycles a feature table's total_sent_value column is drawn from
Patterns == << << 1, 2, 3 >>, << 1, 2, 2, 1, 9 >>, << 1, 1, 2, 1, 1, 1, 3 >> >>
\* the values a single cell may be changed to between two invocations
CellValues == {2, 9}

FlagNames == {"flag", "FLAG"}

\* row i of the table with nf fraud rows, nl legit rows and value cycle p
TableRows(nf, nl, p) ==
  [i \in 1..(nf + nl) |->
     [flag |-> IF i <= nf THEN 1 ELSE 0,
      total_sent_value |-> Patterns[p][((i - 1) % Len(Patterns[p])) + 1],
      transaction_count |-> i % 3]]

\* the column sets offered: complete (either flag name, or with a
\* transaction_count column of the table's own), no address, no flag
ColumnSets ==
  { {"address", "flag", "total_sent_value"},
    {"address", "flag", "total_sent_value", "transaction_count"},
    {"address", "FLAG", "total_sent_value"},
    {"flag", "total_sent_value"},
    {"address", "total_sent_value"} }

\* the ledgers offered: edges between the first two legitimate addresses of
\* the largest table; edges that make address 1 source and destination (a
\* self-loop included), 2 and 3 destinations only, 4 a source only, and that
\* name an address (0) no table holds; no edge at all; or a ledger whose
\* endpoint columns are missing
Ledgers ==
  { [cols |-> {"from_address", "to_address", "value"},
     edges |-> << [from_address |-> 1, to_address |-> 2],
                  [from_address |-> 1, to_address |-> 3],
                  [from_address |-> 4, to_address |-> 1],
                  [from_address |-> 1, to_address |-> 1],
                  [from_address |-> 0, to_address |-> 2] >>],
    [cols |-> {"from_address", "to_address", "value"},
     edges |-> << [from_address |-> MaxFraud + 1, to_address |-> MaxFraud + 2],
                  [from_address |-> MaxFraud + 2, to_address |-> MaxFraud + 1] >>],
    [cols |-> {"from_address", "to_address", "value"}, edges |-> << >>],
    [cols |-> {"hash", "value"}, edges |-> << >>] }

\* the classifier-family names a request may carry
ModelNames == {"xgboost", "svm", "random_forest", "SVM", "lightgbm"}

\* model.lower() on the names offered
Lower(name) == IF name = "SVM" THEN "svm" ELSE name

(***************************************************************************)
(* load_and_prepare                                                        *)
(***************************************************************************)
\* tx.groupby(col).size(): number of edges with address a in column col
GroupSize(edges, col, a) ==
  Cardinality({k \in 1..Len(edges) : edges[k][col] = a})

\* the addresses of the outer merge of out_counts and in_counts
CountedAddresses(edges) ==
  {edges[k].from_address : k \in 1..Len(edges)}
    \cup {edges[k].to_address : k \in 1..Len(edges)}

\* a missing value (NaN) of a numeric column
NaN == -99

\* fillna(0)
FillNa(v) == IF v = NaN THEN 0 ELSE v

\* a column of the outer merge of out_counts and in_counts: the group size,
\* or NaN for an address the side does not hold
SideCount(edges, col, a) ==
  IF \E k \in 1..Len(edges) : edges[k][col] = a
  THEN GroupSize(edges, col, a) ELSE NaN

\* counts['transaction_count'] = out_cnt + in_cnt after .fillna(0)
TransactionCount(edges, a) ==
  FillNa(SideCount(edges, "from_address", a))
    + FillNa(SideCount(edges, "to_address", a))

\* feats.rename(columns={...}): flag/FLAG -> fraud_label,
\* total_sent_value -> total_sent
Renamed(ft) ==
  [i \in DOMAIN ft.rows |->
     IF "transaction_count" \in ft.cols
     THEN [address |-> i,
           fraud_label |-> ft.rows[i].flag,
           total_sent |-> ft.rows[i].total_sent_value,
           transaction_count |-> ft.rows[i].transaction_count]
     ELSE [address |-> i,
           fraud_label |-> ft.rows[i].flag,
           total_sent |-> ft.rows[i].total_sent_value]]

\* the transaction_count column after the merge: the left merge leaves NaN
\* for an address the counts do not hold; without endpoint columns (and
\* without the two frequency columns) the column is 0.0
MergedCount(tx, a) ==
  IF {"from_address", "to_address"} \subseteq tx.cols
  THEN IF a \in CountedAddresses(tx.edges)
       THEN TransactionCount(tx.edges, a) ELSE NaN
  ELSE 0

\* feats.merge(transaction_count, on='address', how='left') renames a
\* transaction_count column both sides hold to transaction_count_x (the
\* table's) and transaction_count_y (the counts'); the fallback assignment
\* feats['transaction_count'] = 0.0 replaces the table's column
Merged(frame, tx) ==
  [i \in DOMAIN frame |->
     IF /\ {"from_address", "to_address"} \subseteq tx.cols
        /\ "transaction_count" \in DOMAIN frame[i]
     THEN [address |-> frame[i].address,
           fraud_label |-> frame[i].fraud_label,
           total_sent |-> frame[i].total_sent,
           transaction_count_x |-> frame[i].transaction_count,
           transaction_count_y |-> MergedCount(tx, frame[i].address)]
     ELSE [address |-> frame[i].address,
           fraud_label |-> frame[i].fraud_label,
           total_sent |-> frame[i].total_sent,
           transaction_count |-> MergedCount(tx, frame[i].address)]]

\* fillna(0) on every numeric column but fraud_label
Filled(frame) ==
  [i \in DOMAIN frame |->
     [c \in DOMAIN frame[i] |->
        IF c \in {"address", "fraud_label"} THEN frame[i][c]
        ELSE FillNa(frame[i][c])]]

\* a validation that looks for the address column only
ValidateAddressOnly(cols) ==
  IF "address" \notin cols THEN "ValueError: address" ELSE "ok"

\* the validation of load_and_prepare: "ok" or the error it raises
ValidateColumns(cols) ==
  IF "address" \notin cols THEN "ValueError: address"
  ELSE IF FlagNames \cap cols = {} THEN "ValueError: flag"
  ELSE "ok"

(***************************************************************************)
(* engineer_features on a table whose source columns are total_sent and    *)
(* transaction_count; every other source column is absent and read as 0.   *)
(* The derived columns kept are net_flow and the three 0/1 columns; the    *)
(* remaining ones are constant 0 on such a table (the spreads, log_balance,*)
(* the two average/contract ratios) or an increasing image of a kept       *)
(* column (sent_to_received_ratio of total_sent, log_txn_count of          *)
(* transaction_count).                                                     *)
(***************************************************************************)
\* df['transaction_count'] is read without get_col
EngineerError(frame) ==
  IF \A i \in DOMAIN frame : "transaction_count" \in DOMAIN frame[i]
  THEN "ok" ELSE "KeyError: transaction_count"

Engineered(frame) ==
  [i \in DOMAIN frame |->
     [address |-> frame[i].address,
      fraud_label |-> frame[i].fraud_label,
      total_sent |-> frame[i].total_sent,
      transaction_count |-> frame[i].transaction_count,
      \* get_col('total_received') - get_col('total_sent')
      net_flow |-> 0 - frame[i].total_sent,
      \* no account_balance column
      is_high_balance |-> 0,
      \* total_txn_freq is 0 everywhere, so q75 = 0 and 0 >= 0
      high_txn_freq_flag |-> 1,
      \* no contract_creation or contract_interaction column
      contract_activity_flag |-> 0]]

\* the numeric columns of X, in column order
NumericCols ==
  << "total_sent", "transaction_count", "net_flow", "is_high_balance",
     "high_txn_freq_flag", "contract_activity_flag" >>

\* 'flag', 'label', 'binary' or 'bool' occurs in the lower-cased name
FlagLike(c) == c \in {"high_txn_freq_flag", "contract_activity_flag", "fraud_label"}

\* continuous_like: the numeric columns that are not flag-like
ContinuousLike == {NumericCols[k] : k \in {j \in 1..Len(NumericCols) : ~FlagLike(NumericCols[j])}}

(***************************************************************************)
(* iqr_clip.  Quantiles use pandas' linear interpolation: for n values and *)
(* q = j/4 the position is j(n-1)/4; the quantile is returned times 4.     *)
(* Missing values are skipped, so n counts the values present (at least    *)
(* one where the quantile is used).                                        *)
(***************************************************************************)
Quantile4(df, rows, c, j) ==
  LET live == {i \in rows : df[i][c] # NaN}
      n    == Cardinality(live)
      f    == [i \in live |-> df[i][c]]
      lo   == (j * (n - 1)) \div 4
      r    == (j * (n - 1)) % 4
      vlo  == KthSmallest(live, f, lo + 1)
      vhi  == IF r = 0 THEN vlo ELSE KthSmallest(live, f, lo + 2)
  IN 4 * vlo + r * (vhi - vlo)

\* low = q1 - 1.5*iqr and high = q3 + 1.5*iqr, both times 8
Low8(df, rows, c) ==
  LET q1 == Quantile4(df, rows, c, 1)
      q3 == Quantile4(df, rows, c, 3)
  IN 2 * q1 - 3 * (q3 - q1)

High8(df, rows, c) ==
  LET q1 == Quantile4(df, rows, c, 1)
      q3 == Quantile4(df, rows, c, 3)
  IN 2 * q3 + 3 * (q3 - q1)

\* df[c].between(low, high): both ends inclusive, false for a missing value
Between(df, rows, c, i) ==
  /\ df[i][c] # NaN
  /\ 8 * df[i][c] >= Low8(df, rows, c)
  /\ 8 * df[i][c] <= High8(df, rows, c)

\* a filter whose mask lacks the isna() term
IqrClipDropsMissing(df, rows, cols) ==
  {i \in rows : \A c \in cols : Between(df, rows, c, i)}

\* the rows iqr_clip keeps: for every column in cols, inside the interval
\* or missing (the bounds of a column without a value are never compared)
IqrClip(df, rows, cols) ==
  LET some == [c \in cols |-> \E i \in rows : df[i][c] # NaN]
      low  == [c \in cols |-> IF some[c] THEN Low8(df, rows, c) ELSE NaN]
      high == [c \in cols |-> IF some[c] THEN High8(df, rows, c) ELSE NaN]
  IN {i \in rows : \A c \in cols :
        \/ df[i][c] = NaN
        \/ 8 * df[i][c] >= low[c] /\ 8 * df[i][c] <= high[c]}

\* df.loc[keep_mask]: the rows of the mask under their index labels
TakeRows(df, keep) == [i \in keep |-> df[i]]


(***************************************************************************)
(* train_test_split(X, y, test_size=0.20, random_state=seed, stratify=y).  *)
(* The generator seeded with random_state is a fixed function of the seed: *)
(* a class's rows are permuted by a rotation the seed selects and a tie    *)
(* between equal remainders is broken by the seed.                         *)
(***************************************************************************)
Labels(df, rows, l) == {i \in rows : df[i].fraud_label = l}

\* n_test = ceil(0.2 * n), n_train = n - n_test
NTest(n) == CeilDiv(n, 5)
NTrain(n) == n - NTest(n)

\* the error the split raises on n rows with class counts c0 and c1, or "ok"
SplitError(c0, c1) ==
  LET n == c0 + c1
      classes == (IF c0 > 0 THEN 1 ELSE 0) + (IF c1 > 0 THEN 1 ELSE 0)
  IN IF n = 0 \/ NTrain(n) = 0 THEN "ValueError: empty train set"
     ELSE IF (c0 > 0 /\ c0 < 2) \/ (c1 > 0 /\ c1 < 2)
          THEN "ValueError: least populated class has 1 member"
     ELSE IF NTrain(n) < classes \/ NTest(n) < classes
          THEN "ValueError: fewer samples than classes"
     ELSE "ok"

\* rng.choice among classes with equal remainders: the class that gets the row
TiePick(seed) == seed % 2

\* _approximate_mode: the number of class-1 rows among `draws` rows drawn
\* from c0 class-0 rows and c1 class-1 rows (largest remainder first)
ApproxMode1(c0, c1, draws, seed) ==
  LET tot  == c0 + c1
      f0   == (c0 * draws) \div tot
      f1   == (c1 * draws) \div tot
      r0   == (c0 * draws) % tot
      r1   == (c1 * draws) % tot
      need == draws - f0 - f1
  IN IF need = 0 THEN f1
     ELSE IF r1 > r0 THEN f1 + 1
     ELSE IF r0 > r1 THEN f1
     ELSE f1 + TiePick(seed)

\* a permutation drawn from the generator's running state, not the seed
PermOffsetUnseeded(seed, m) == (3 * runNo + 1) % m

\* rng.permutation(m): position j of the permuted class holds its Perm-th row
PermOffset(seed, m) == (3 * seed + 1) % m
Perm(seed, m, j) == ((j - 1 + PermOffset(seed, m)) % m) + 1

\* the first k rows of class S in the permuted order
TakePermuted(S, seed, k) ==
  LET srt == SortedSeq(S)
      m   == Len(srt)
  IN {srt[Perm(seed, m, j)] : j \in 1..k}

\* a split without stratify=y
SplitTrainUnstratified(df, rows, seed) ==
  TakePermuted(rows, seed, NTrain(Cardinality(rows)))

\* the training partition of the rows `rows` of df
SplitTrain(df, rows, seed) ==
  LET S0 == Labels(df, rows, 0)
      S1 == Labels(df, rows, 1)
      c0 == Cardinality(S0)
      c1 == Cardinality(S1)
      n1 == ApproxMode1(c0, c1, NTrain(c0 + c1), seed)
      n0 == NTrain(c0 + c1) - n1
  IN TakePermuted(S0, seed, n0) \cup TakePermuted(S1, seed, n1)

\* the test partition: per class, the rows after the training rows in the
\* permuted order (t_i = the class's remaining rows)
SplitTest(df, rows, seed) == rows \ SplitTrain(df, rows, seed)

(***************************************************************************)
(* StandardScaler inside the ColumnTransformer.  The fitted state is kept  *)
(* as the sufficient statistics of the rows it was fitted on: mean = sum/n *)
(* and scale = sqrt(sumsq/n - mean^2) (1 when the variance is 0).          *)
(***************************************************************************)
ScalerFit(df, rows, cols) ==
  [c \in cols |->
     [n |-> Cardinality(rows),
      sum |-> SumOver(rows, [i \in rows |-> df[i][c]]),
      sumsq |-> SumOver(rows, [i \in rows |-> df[i][c] * df[i][c]])]]

\* two fitted columns have the same mean: s1/n1 = s2/n2
SameMean(a, b) == a.sum * b.n = b.sum * a.n
\* and the same variance, hence the same scale
SameScale(a, b) ==
  (a.n * a.sumsq - a.sum * a.sum) * b.n * b.n
    = (b.n * b.sumsq - b.sum * b.sum) * a.n * a.n
SameScaler(p, q) ==
  /\ DOMAIN p = DOMAIN q
  /\ \A c \in DOMAIN p : SameMean(p[c], q[c]) /\ SameScale(p[c], q[c])

(***************************************************************************)
(* SMOTE(random_state=seed).fit_resample, sampling_strategy 'auto': every  *)
(* class but the majority is raised to the majority's count.               *)
(***************************************************************************)
\* the error fit_resample raises on class counts c0, c1, or "ok"
SmoteError(c0, c1) ==
  IF c0 = 0 \/ c1 = 0 THEN "ValueError: y needs more than 1 class"
  ELSE IF c0 # c1 /\ Min2(c0, c1) < KNeighbors + 1
       THEN "ValueError: n_neighbors > n_samples_fit"
  ELSE "ok"

\* an oversampler that takes fraud for the minority class
MinorityAlwaysFraud(c0, c1) == 1

\* the class that is oversampled and the number of synthetic rows made
MinorityClass(c0, c1) == IF c1 <= c0 THEN 1 ELSE 0
SyntheticCount(c0, c1) == Max2(c0, c1) - Min2(c0, c1)

\* the synthetic rows: the k-th one is interpolated between a minority row
\* and one of its neighbours, both picked by the seeded generator
Synthetic(df, rows, seed) ==
  LET c0  == Cardinality(Labels(df, rows, 0))
      c1  == Cardinality(Labels(df, rows, 1))
      cls == MinorityClass(c0, c1)
      srt == SortedSeq(Labels(df, rows, cls))
      m   == Len(srt)
  IN {[syn |-> k,
       label |-> cls,
       base |-> srt[((seed + k) % m) + 1],
       neighbour |-> srt[((seed + k + 1 + (k % (m - 1))) % m) + 1]]
        : k \in 1..SyntheticCount(c0, c1)}


(***************************************************************************)
(* The classifier.  fit and predict_proba are library code: a fitted       *)
(* classifier is a deterministic function of its family, configuration,    *)
(* random_state and the data it was fitted on, and its score of a row is a *)
(* deterministic function of the fitted state and the row.  Both are kept  *)
(* as fixed arithmetic digests; a probability is in tenths (0..10).        *)
(***************************************************************************)
Families == {"xgboost", "svm", "random_forest"}
FamilyCode(f) == IF f = "xgboost" THEN 1 ELSE IF f = "svm" THEN 2 ELSE 3

\* configuration 0 is the family's default; a search samples 1..NumConfigs
NumConfigs == 4

\* clf.fit(X_tr, y_tr) on the training rows and the synthetic rows
FitClassifier(family, cfg, seed, df, rows, syn) ==
  [family |-> family,
   cfg |-> cfg,
   seed |-> seed,
   n_fit |-> Cardinality(rows) + Cardinality(syn),
   digest |-> SumOver(rows, [i \in rows |->
                 (1 + df[i].fraud_label) * df[i].total_sent
                   + df[i].transaction_count])
              + Cardinality(syn)]

\* clf.predict_proba(X_te)[:, 1] for one row, in tenths
PredictProba(model, rec) ==
  (FamilyCode(model.family) + 2 * model.cfg + model.seed + model.digest
     + 3 * rec.total_sent + 5 * rec.transaction_count) % 11

\* preds = (proba >= 0.5).astype(int)
Pred(p) == IF p >= Threshold THEN 1 ELSE 0

(***************************************************************************)
(* The scores, each an exact fraction [num, den].                          *)
(***************************************************************************)
\* zero_division=0: a score whose denominator is 0 is 0
Ratio(num, den) == IF den = 0 THEN [num |-> 0, den |-> 1]
                   ELSE [num |-> num, den |-> den]

Confusion(df, rows, prob) ==
  [tp |-> Cardinality({i \in rows : df[i].fraud_label = 1 /\ Pred(prob[i]) = 1}),
   fp |-> Cardinality({i \in rows : df[i].fraud_label = 0 /\ Pred(prob[i]) = 1}),
   tn |-> Cardinality({i \in rows : df[i].fraud_label = 0 /\ Pred(prob[i]) = 0}),
   fn |-> Cardinality({i \in rows : df[i].fraud_label = 1 /\ Pred(prob[i]) = 0})]

Accuracy(c) == Ratio(c.tp + c.tn, c.tp + c.fp + c.tn + c.fn)
Precision(c) == Ratio(c.tp, c.tp + c.fp)
Recall(c) == Ratio(c.tp, c.tp + c.fn)
F1(c) == Ratio(2 * c.tp, 2 * c.tp + c.fp + c.fn)

\* roc_auc_score(y_test, proba): pairs ranked right, a tie counting half
RocAuc(df, rows, prob) ==
  LET pos == Labels(df, rows, 1)
      neg == Labels(df, rows, 0)
      won == Cardinality({pq \in pos \X neg : prob[pq[1]] > prob[pq[2]]})
      tie == Cardinality({pq \in pos \X neg : prob[pq[1]] = prob[pq[2]]})
  IN [num |-> 2 * won + tie, den |-> 2 * Cardinality(pos) * Cardinality(neg)]

RECURSIVE Factorial(_)
Factorial(n) == IF n <= 1 THEN 1 ELSE n * Factorial(n - 1)

\* average_precision_score(y_test, proba): the sum over the thresholds t of
\* (recall step at t) * (precision at t), over the denominator P * n!
AvgPrecision(df, rows, prob) ==
  LET pos   == Labels(df, rows, 1)
      n     == Cardinality(rows)
      tpAt(t) == Cardinality({i \in pos : prob[i] >= t})
      ppAt(t) == Cardinality({i \in rows : prob[i] >= t})
      lv    == {prob[i] : i \in rows}
      term  == [t \in lv |->
                  (tpAt(t) - tpAt(t + 1)) * tpAt(t) * (Factorial(n) \div ppAt(t))]
  IN [num |-> SumOver(lv, term), den |-> Cardinality(pos) * Factorial(n)]

(***************************************************************************)
(* The diagnostics.                                                        *)
(***************************************************************************)
\* df_events.sort_values('proba', ascending=...): the rows by probability,
\* sign = -1 for descending, 1 for ascending; equal probabilities stay in
\* row order
RECURSIVE Ranked(_, _, _)
Ranked(rows, prob, sign) ==
  IF rows = {} THEN << >>
  ELSE LET m == CHOOSE i \in rows : \A j \in rows :
                  \/ sign * prob[i] < sign * prob[j]
                  \/ (prob[i] = prob[j] /\ i <= j)
       IN << m >> \o Ranked(rows \ {m}, prob, sign)

\* the events of one ranking: its first EventsHead rows under `status`
EventsOf(ranking, prob, status) ==
  [k \in 1..Min2(EventsHead, Len(ranking)) |->
     [address |-> ranking[k],
      status |-> status,
      confidence |-> IF status = "fraud" THEN prob[ranking[k]]
                     ELSE 10 - prob[ranking[k]],
      time |-> "just now"]]

\* metrics['recent_events']: top_frauds followed by top_legits
RecentEvents(rows, prob) ==
  EventsOf(Ranked(rows, prob, -1), prob, "fraud")
    \o EventsOf(Ranked(rows, prob, 1), prob, "legitimate")

\* clf.feature_importances_ of a tree family, one number per column
Importance(model, c) ==
  (model.digest + model.cfg + (IF c = "total_sent" THEN 3 ELSE 1)) % 5

\* fi.sort_values("importance", ascending=False).head(50) over the columns
\* cols (a sequence)
FeatureImportances(model, cols) ==
  LET imp == [k \in 1..Len(cols) |-> Importance(model, cols[k])]
      byImp == Ranked(1..Len(cols), imp, -1)
  IN [k \in 1..Min2(ImportancesHead, Len(byImp)) |->
        [feature |-> cols[byImp[k]], importance |-> imp[byImp[k]]]]

(***************************************************************************)
(* RandomizedSearchCV(estimator, param_dist, n_iter, cv, 'average_precision'*)
(* , random_state=s).fit on the balanced training fold.                    *)
(***************************************************************************)
\* ParameterSampler: the j-th sampled configuration
SampleConfig(s, j) == ((s + 2 * j) % NumConfigs) + 1

\* mean cross-validated average precision of a configuration
CvScore(family, cfg, df, rows, syn) ==
  (3 * cfg + FamilyCode(family)
     + FitClassifier(family, cfg, 0, df, rows, syn).digest) % 7

\* best_index_: the first sampled configuration with the best score
BestIndex(family, s, n, df, rows, syn) ==
  LET score(j) == CvScore(family, SampleConfig(s, j), df, rows, syn)
  IN CHOOSE j \in 1..n :
       /\ \A k \in 1..n : score(k) <= score(j)
       /\ \A k \in 1..(j - 1) : score(k) < score(j)

\* n_iter: 20 in train_xgb and train_svm, 25 in train_random_forest
NIterOf(family) == IF family = "random_forest" THEN NIter + 1 ELSE NIter

\* the random_state each train_* function hands to RandomizedSearchCV
SearchSeed(family, seed) == IF family = "xgboost" THEN XgbSearchSeed ELSE seed


(***************************************************************************)
(* The requests offered.                                                   *)
(***************************************************************************)
CompleteCols == {"address", "flag", "total_sent_value"}
EdgeLedger == CHOOSE l \in Ledgers : Len(l.edges) = 2
PlainLedger == CHOOSE l \in Ledgers : "from_address" \notin l.cols

FeatureTable(cols, nf, nl, p) == [cols |-> cols, rows |-> TableRows(nf, nl, p)]

\* every table size, value cycle, seed and family on well-formed uploads
CoreRequests ==
  {[model |-> m, no_tune |-> nt, seed |-> sd, faults |-> {},
    ft |-> FeatureTable(CompleteCols, nf, nl, p), tx |-> tx] :
     m \in Families, nt \in BOOLEAN, sd \in 0..MaxSeed,
     nf \in 0..MaxFraud, nl \in MinLegit..MaxLegit,
     p \in 1..Len(Patterns), tx \in {PlainLedger}}

\* every column set, ledger and family name on the largest table
EdgeRequests ==
  {[model |-> m, no_tune |-> nt, seed |-> 0, faults |-> {},
    ft |-> FeatureTable(cols, MaxFraud, MaxLegit, 1), tx |-> tx] :
     m \in ModelNames, nt \in BOOLEAN, cols \in ColumnSets, tx \in Ledgers}

\* a table most of whose rows are fraud
SkewRequests ==
  {[model |-> "xgboost", no_tune |-> TRUE, seed |-> sd, faults |-> {},
    ft |-> FeatureTable(CompleteCols, SkewFraud, SkewLegit, 1),
    tx |-> PlainLedger] : sd \in 0..MaxSeed}

\* the diagnostics that may raise inside their try block
Diagnostics == {"importances", "events"}

\* every family on the largest table, with a diagnostic that raises
FaultRequests ==
  {[model |-> m, no_tune |-> nt, seed |-> 0, faults |-> f,
    ft |-> FeatureTable(CompleteCols, MaxFraud, MaxLegit, 1),
    tx |-> PlainLedger] :
     m \in Families, nt \in BOOLEAN, f \in (SUBSET Diagnostics) \ {{}}}

Requests == CoreRequests \cup EdgeRequests \cup SkewRequests \cup FaultRequests

EmptyStore == [latest |-> << >>, history |-> << >>, activity |-> << >>,
               models |-> << >>]

\* the state a handler starts from
Fresh ==
  /\ pc = "start"
  /\ tab = << >>
  /\ counts = << >>
  /\ chosen = ""
  /\ orig = << >>
  /\ kept = {}
  /\ train = {}
  /\ test = {}
  /\ scaler = << >>
  /\ teScaled = << >>
  /\ synth = {}
  /\ balanced = FALSE
  /\ search = << >>
  /\ clf = << >>
  /\ proba = << >>
  /\ scored = {}
  /\ metrics = << >>
  /\ calls = 0
  /\ trace = << >>
  /\ response = << >>
  /\ error = ""

Init ==
  /\ req \in Requests
  /\ Fresh
  /\ store = EmptyStore
  /\ clock = 0
  /\ runNo = 1
  /\ prev = << >>
  /\ fe = << >>
  /\ svc = << >>
  /\ clip = << >>


(***************************************************************************)
(* load_and_prepare, step by step.                                         *)
(***************************************************************************)
\* a handler that forgets its latest result when a request fails
StoreOnErrorForgetsLatest(st) == [st EXCEPT !.latest = << >>]

\* an exception leaves train_endpoint before its first assignment to a
\* global: the store is what it was
StoreOnError(st) == st

Raise(e) ==
  /\ pc' = "failed"
  /\ error' = e
  /\ store' = StoreOnError(store)
Step(name) == trace' = Append(trace, name)

\* pd.read_csv of the two uploads
ReadTables ==
  /\ pc = "start"
  /\ pc' = "validate"
  /\ Step("read_csv")
  /\ UNCHANGED << req, tab, counts, chosen, runVars, response, error, store,
                  clock, runNo, prev >>
  /\ UNCHANGED aux

\* the two column checks
Validate ==
  /\ pc = "validate"
  /\ Step("validate")
  /\ IF ValidateColumns(req.ft.cols) = "ok"
     THEN pc' = "count" /\ UNCHANGED << error, store >>
     ELSE Raise(ValidateColumns(req.ft.cols))
  /\ UNCHANGED << req, tab, counts, chosen, runVars, response, clock,
                  runNo, prev >>
  /\ UNCHANGED aux

\* out_counts, in_counts and their outer merge, when the ledger has both
\* endpoint columns
CountTransactions ==
  /\ pc = "count"
  /\ pc' = "rename"
  /\ Step("count")
  /\ counts' = IF {"from_address", "to_address"} \subseteq req.tx.cols
               THEN << CountedAddresses(req.tx.edges) >>
               ELSE << >>
  /\ UNCHANGED << req, tab, chosen, runVars, response, error, store, clock,
                  runNo, prev >>
  /\ UNCHANGED aux

Rename ==
  /\ pc = "rename"
  /\ pc' = "merge"
  /\ Step("rename")
  /\ tab' = Renamed(req.ft)
  /\ UNCHANGED << req, counts, chosen, runVars, response, error, store, clock,
                  runNo, prev >>
  /\ UNCHANGED aux

MergeCounts ==
  /\ pc = "merge"
  /\ pc' = "fill"
  /\ Step("merge")
  /\ tab' = Merged(tab, req.tx)
  /\ UNCHANGED << req, counts, chosen, runVars, response, error, store, clock,
                  runNo, prev >>
  /\ UNCHANGED aux

FillGaps ==
  /\ pc = "fill"
  /\ pc' = "engineer"
  /\ Step("fillna")
  /\ tab' = Filled(tab)
  /\ UNCHANGED << req, counts, chosen, runVars, response, error, store, clock,
                  runNo, prev >>
  /\ UNCHANGED aux

EngineerFeatures ==
  /\ pc = "engineer"
  /\ Step("engineer")
  /\ IF EngineerError(tab) = "ok"
     THEN /\ tab' = Engineered(tab)
          /\ pc' = "dispatch"
          /\ UNCHANGED << error, store >>
     ELSE /\ Raise(EngineerError(tab))
          /\ tab' = tab
  /\ UNCHANGED << req, counts, chosen, runVars, response, clock,
                  runNo, prev >>
  /\ UNCHANGED aux

(***************************************************************************)
(* train_endpoint's choice of the train function.                          *)
(***************************************************************************)
\* chosen = (model or "").lower(); svm, random_forest, else train_xgb
\* (the neural_network branch calls a module this model does not cover and
\* no request offered names it)
ChooseFamily(name) ==
  IF Lower(name) = "svm" THEN "svm"
  ELSE IF Lower(name) = "random_forest" THEN "random_forest"
  ELSE "xgboost"

Dispatch ==
  /\ pc = "dispatch"
  /\ pc' = "clip"
  /\ Step("dispatch")
  /\ chosen' = ChooseFamily(req.model)
  /\ UNCHANGED << req, tab, counts, runVars, response, error, store, clock,
                  runNo, prev >>
  /\ UNCHANGED aux

(***************************************************************************)
(* train_xgb / train_random_forest / train_svm up to the split.            *)
(***************************************************************************)
Rows == DOMAIN tab

\* y, X, the original counts, continuous_like and iqr_clip on the full frame
OutlierFilter ==
  /\ pc = "clip"
  /\ pc' = "split"
  /\ Step("iqr_clip")
  /\ orig' = << [total |-> Cardinality(Rows),
                 fraud |-> Cardinality(Labels(tab, Rows, 1))] >>
  /\ kept' = IqrClip(tab, Rows, ContinuousLike)
  /\ UNCHANGED << req, tab, counts, chosen, train, test, scaler, teScaled,
                  synth, balanced, search, clf, proba, scored, metrics, calls,
                  response, error, store, clock, runNo, prev >>
  /\ UNCHANGED aux

\* where the train function goes after the split
AfterSplit(noTune) == IF noTune THEN "fe_scale" ELSE "search_prep"

Split ==
  /\ pc = "split"
  /\ Step("split")
  /\ LET c0 == Cardinality(Labels(tab, kept, 0))
         c1 == Cardinality(Labels(tab, kept, 1))
     IN IF SplitError(c0, c1) = "ok"
        THEN /\ train' = SplitTrain(tab, kept, req.seed)
             /\ test' = SplitTest(tab, kept, req.seed)
             /\ pc' = AfterSplit(req.no_tune)
             /\ UNCHANGED << error, store >>
        ELSE /\ Raise(SplitError(c0, c1))
             /\ UNCHANGED << train, test >>
  /\ UNCHANGED << req, tab, counts, chosen, orig, kept, scaler, teScaled,
                  synth, balanced, search, clf, proba, scored, metrics, calls,
                  response, clock, runNo, prev >>
  /\ UNCHANGED aux


(***************************************************************************)
(* The search branch: the scaler and SMOTE on the whole training fold,     *)
(* then RandomizedSearchCV on the result.                                  *)
(***************************************************************************)
TrainC0 == Cardinality(Labels(tab, train, 0))
TrainC1 == Cardinality(Labels(tab, train, 1))
XCols == SeqRange(NumericCols)

\* X_tr_all = pre.fit_transform(X_train); smote.fit_resample(X_tr_all, ...)
SearchPrepare ==
  /\ pc = "search_prep"
  /\ scaler' = << ScalerFit(tab, train, XCols) >>
  /\ trace' = trace \o << "scaler_fit", "smote" >>
  /\ IF SmoteError(TrainC0, TrainC1) = "ok"
     THEN /\ synth' = Synthetic(tab, train, req.seed)
          /\ balanced' = TRUE
          /\ pc' = "search_fit"
          /\ UNCHANGED << error, store >>
     ELSE /\ Raise(SmoteError(TrainC0, TrainC1))
          /\ UNCHANGED << synth, balanced >>
  /\ UNCHANGED << req, tab, counts, chosen, orig, kept, train, test, teScaled,
                  search, clf, proba, scored, metrics, calls, response, clock, runNo, prev >>
  /\ UNCHANGED aux

\* rnd.fit(X_tr_all, y_tr_all); best = rnd.best_estimator_
SearchFit ==
  /\ pc = "search_fit"
  /\ pc' = "fe_scale"
  /\ Step("search_cv")
  /\ LET s == SearchSeed(chosen, req.seed)
         n == NIterOf(chosen)
     IN search' =
          << [seed |-> s,
              candidates |-> [j \in 1..n |-> SampleConfig(s, j)],
              scoredRows |-> train,
              scoredSynth |-> synth,
              best |-> SampleConfig(s, BestIndex(chosen, s, n, tab, train, synth))] >>
  /\ UNCHANGED << req, tab, counts, chosen, orig, kept, train, test, scaler,
                  teScaled, synth, balanced, clf, proba, scored, metrics,
                  calls, response, error, store, clock, runNo, prev >>
  /\ UNCHANGED aux

(***************************************************************************)
(* fit_and_eval(clf)                                                       *)
(***************************************************************************)
\* a final fit with the first candidate sampled, whatever its score
ConfigFirstSampled ==
  IF search = << >> THEN 0 ELSE search[1].candidates[1]

\* the configuration of the classifier handed to fit_and_eval
Config == IF search = << >> THEN 0 ELSE search[1].best

\* X_tr = pre.fit_transform(X_train)
FeScale ==
  /\ pc = "fe_scale"
  /\ pc' = "fe_transform"
  /\ Step("scaler_fit")
  /\ calls' = calls + 1
  /\ scaler' = << ScalerFit(tab, train, XCols) >>
  /\ UNCHANGED << req, tab, counts, chosen, orig, kept, train, test, teScaled,
                  synth, balanced, search, clf, proba, scored, metrics,
                  response, error, store, clock, runNo, prev >>
  /\ UNCHANGED aux

\* X_te = pre.transform(X_test)
FeTransform ==
  /\ pc = "fe_transform"
  /\ pc' = "fe_smote"
  /\ Step("scaler_transform_test")
  /\ teScaled' = scaler
  /\ UNCHANGED << req, tab, counts, chosen, orig, kept, train, test, scaler,
                  synth, balanced, search, clf, proba, scored, metrics, calls,
                  response, error, store, clock, runNo, prev >>
  /\ UNCHANGED aux

\* X_tr, y_tr = smote.fit_resample(X_tr, y_train)
FeSmote ==
  /\ pc = "fe_smote"
  /\ Step("smote")
  /\ IF SmoteError(TrainC0, TrainC1) = "ok"
     THEN /\ synth' = Synthetic(tab, train, req.seed)
          /\ balanced' = TRUE
          /\ pc' = "fe_fit"
          /\ UNCHANGED << error, store >>
     ELSE /\ Raise(SmoteError(TrainC0, TrainC1))
          /\ UNCHANGED << synth, balanced >>
  /\ UNCHANGED << req, tab, counts, chosen, orig, kept, train, test, scaler,
                  teScaled, search, clf, proba, scored, metrics, calls,
                  response, clock, runNo, prev >>
  /\ UNCHANGED aux

\* clf.fit(X_tr, y_tr)
FeFit ==
  /\ pc = "fe_fit"
  /\ pc' = "fe_predict"
  /\ Step("clf_fit")
  /\ clf' = << FitClassifier(chosen, Config, req.seed, tab, train, synth) >>
  /\ UNCHANGED << req, tab, counts, chosen, orig, kept, train, test, scaler,
                  teScaled, synth, balanced, search, proba, scored, metrics,
                  calls, response, error, store, clock, runNo, prev >>
  /\ UNCHANGED aux

RealRow(i) == [kind |-> "real", id |-> i]
SynRow(r) == [kind |-> "synthetic", id |-> r.syn]

\* an evaluation matrix that also holds the synthetic rows
EvalRowsWithSynthetic(te, syn) ==
  {RealRow(i) : i \in te} \cup {SynRow(r) : r \in syn}

\* the rows of X_te, the matrix handed to predict_proba
EvalRows(te, syn) == {RealRow(i) : i \in te}

\* proba = clf.predict_proba(X_te)[:, 1]
FePredict ==
  /\ pc = "fe_predict"
  /\ pc' = "fe_metrics"
  /\ Step("predict_test")
  /\ scored' = EvalRows(test, synth)
  /\ proba' = [i \in test |-> PredictProba(clf[1], tab[i])]
  /\ UNCHANGED << req, tab, counts, chosen, orig, kept, train, test, scaler,
                  teScaled, synth, balanced, search, clf, metrics, calls,
                  response, error, store, clock, runNo, prev >>
  /\ UNCHANGED aux

\* bookkeeping that counts y_train again instead of the resampled y_tr
PostCountOfTrain(l) == Cardinality(Labels(tab, train, l))

\* the counts of y_tr after fit_resample
PostCount(l) ==
  Cardinality(Labels(tab, train, l)) + Cardinality({r \in synth : r.label = l})

\* the metrics dict of fit_and_eval, stamped with the time t
MetricsRecord(t) ==
  LET c == Confusion(tab, test, proba)
  IN [accuracy |-> Accuracy(c),
      precision |-> Precision(c),
      recall |-> Recall(c),
      f1 |-> F1(c),
      roc_auc |-> RocAuc(tab, test, proba),
      pr_auc |-> AvgPrecision(tab, test, proba),
      report |-> c,
      train_samples_pre_smote |-> Cardinality(train),
      train_samples_post_smote |-> Cardinality(train) + Cardinality(synth),
      test_samples |-> Cardinality(test),
      num_features |-> Len(NumericCols),
      original_fraud_rate |-> [num |-> orig[1].fraud, den |-> orig[1].total],
      balanced_fraud_rate |-> [num |-> PostCount(1),
                               den |-> PostCount(0) + PostCount(1)],
      original_total |-> orig[1].total,
      original_fraud |-> orig[1].fraud,
      pre_smote_fraud |-> TrainC1,
      pre_smote_legit |-> TrainC0,
      post_smote_fraud |-> PostCount(1),
      post_smote_legit |-> PostCount(0),
      timestamp |-> t]

\* roc_auc_score raises when y_test holds a single class
MetricsError ==
  IF Labels(tab, test, 0) = {} \/ Labels(tab, test, 1) = {}
  THEN "ValueError: only one class in y_true" ELSE "ok"

\* metrics = {...}
FeMetrics ==
  /\ pc = "fe_metrics"
  /\ Step("metrics")
  /\ IF MetricsError = "ok"
     THEN /\ metrics' = << IF chosen = "svm"
                           THEN MetricsRecord(clock + 1)
                                  @@ [feature_importances |-> << >>]
                           ELSE MetricsRecord(clock + 1) >>
          /\ clock' = clock + 1
          /\ pc' = "fe_diag"
          /\ UNCHANGED << error, store >>
     ELSE /\ Raise(MetricsError)
          /\ UNCHANGED << metrics, clock >>
  /\ UNCHANGED << req, tab, counts, chosen, orig, kept, train, test, scaler,
                  teScaled, synth, balanced, search, clf, proba, scored, calls,
                  response, runNo, prev >>
  /\ UNCHANGED aux

\* the first try block: the ranking when it is produced; when it raises,
\* train_xgb passes, train_random_forest stores an empty list; train_svm has
\* no such block and keeps the empty list of its metrics dict
WithImportances(family, m, model, raised) ==
  IF family = "svm" THEN m
  ELSE IF ~raised
       THEN [feature_importances |-> FeatureImportances(model, NumericCols)] @@ m
  ELSE IF family = "random_forest" THEN [feature_importances |-> << >>] @@ m
  ELSE m

\* the second try block: the events, or an empty list when it raises
WithEvents(m, rows, prob, raised) ==
  [recent_events |-> IF raised THEN << >> ELSE RecentEvents(rows, prob)] @@ m

\* the two try blocks: feature importances (tree families), recent events
FeDiagnostics ==
  /\ pc = "fe_diag"
  /\ pc' = "return"
  /\ Step("diagnostics")
  /\ metrics' =
       << WithEvents(WithImportances(chosen, metrics[1], clf[1],
                                     "importances" \in req.faults),
                     test, proba, "events" \in req.faults) >>
  /\ UNCHANGED << req, tab, counts, chosen, orig, kept, train, test, scaler,
                  teScaled, synth, balanced, search, clf, proba, scored, calls,
                  response, error, store, clock, runNo, prev >>
  /\ UNCHANGED aux

\* return fit_and_eval(base), or metrics["best_params"] = rnd.best_params_
Return ==
  /\ pc = "return"
  /\ pc' = "respond"
  /\ Step("return")
  /\ metrics' = << IF search = << >> THEN metrics[1]
                   ELSE [best_params |-> search[1].best] @@ metrics[1] >>
  /\ UNCHANGED << req, tab, counts, chosen, orig, kept, train, test, scaler,
                  teScaled, synth, balanced, search, clf, proba, scored, calls,
                  response, error, store, clock, runNo, prev >>
  /\ UNCHANGED aux


(***************************************************************************)
(* train_endpoint after the train function returned: the used_model tag,   *)
(* the JSON conversion and the result store.                               *)
(***************************************************************************)
\* metrics["used_model"] = ... of the branch taken
UsedModel(family) == family

\* MODEL_METRICS[model_key] = response_metrics
PutModel(models, key, m) ==
  [k \in DOMAIN models \cup {key} |-> IF k = key THEN m ELSE models[k]]

\* the store after one successful request
StoreAfter(st, resp) ==
  [latest |-> << resp >>,
   models |-> PutModel(st.models, resp.used_model, resp),
   history |-> Tail_n(Append(st.history, resp), HistoryKeep),
   activity |-> Head_n(resp.recent_events \o st.activity, ActivityKeep)]

Respond ==
  /\ pc = "respond"
  /\ pc' = "done"
  /\ Step("respond")
  /\ LET resp == [used_model |-> UsedModel(chosen)] @@ metrics[1]
     IN /\ response' = << resp >>
        /\ store' = StoreAfter(store, resp)
  /\ UNCHANGED << req, tab, counts, chosen, runVars, error, clock, runNo,
                  prev >>
  /\ UNCHANGED aux

(***************************************************************************)
(* The second invocation: the same request again, or (after a completed    *)
(* run without search) the same request with one total_sent_value cell of  *)
(* a row of the first test fold changed.                                   *)
(***************************************************************************)
Finished == pc \in {"done", "failed"}

Edits ==
  {req.ft.rows} \cup
  (IF req.no_tune /\ pc = "done"
   THEN {[req.ft.rows EXCEPT ![i].total_sent_value = v] :
           i \in test, v \in CellValues}
   ELSE {})

\* the next request's feature table: the same one, one with an edited
\* cell, the same rows with the missing columns supplied after a refused
\* request, or the same rows without the address column after a completed
\* one
NextTables ==
  {[req.ft EXCEPT !.rows = rows] : rows \in Edits}
    \cup (IF pc = "failed" /\ ValidateColumns(req.ft.cols) # "ok"
         THEN {[req.ft EXCEPT !.cols = CompleteCols]} ELSE {})
    \cup (IF pc = "done"
         THEN {[req.ft EXCEPT !.cols = req.ft.cols \ {"address"}]} ELSE {})

Reinvoke ==
  /\ Finished
  /\ prev = << >>
  /\ runNo' = runNo + 1
  /\ clock' = clock + 1
  /\ prev' = << [rows |-> req.ft.rows, cols |-> req.ft.cols, kept |-> kept,
                 train |-> train, test |-> test, scaler |-> scaler,
                 response |-> response,
                 error |-> error, trace |-> trace] >>
  /\ \E ft \in NextTables : req' = [req EXCEPT !.ft = ft]
  /\ pc' = "start"
  /\ tab' = << >>
  /\ counts' = << >>
  /\ chosen' = ""
  /\ orig' = << >>
  /\ kept' = {}
  /\ train' = {}
  /\ test' = {}
  /\ scaler' = << >>
  /\ teScaled' = << >>
  /\ synth' = {}
  /\ balanced' = FALSE
  /\ search' = << >>
  /\ clf' = << >>
  /\ proba' = << >>
  /\ scored' = {}
  /\ metrics' = << >>
  /\ calls' = 0
  /\ trace' = << >>
  /\ response' = << >>
  /\ error' = ""
  /\ store' = store
  /\ UNCHANGED aux

Next ==
  \/ ReadTables
  \/ Validate
  \/ CountTransactions
  \/ Rename
  \/ MergeCounts
  \/ FillGaps
  \/ EngineerFeatures
  \/ Dispatch
  \/ OutlierFilter
  \/ Split
  \/ SearchPrepare
  \/ SearchFit
  \/ FeScale
  \/ FeTransform
  \/ FeSmote
  \/ FeFit
  \/ FePredict
  \/ FeMetrics
  \/ FeDiagnostics
  \/ Return
  \/ Respond
  \/ Reinvoke

Spec == Init /\ [][Next]_vars

(***************************************************************************)
(* Properties.                                                             *)
(***************************************************************************)
Happened(name) == name \in SeqRange(trace)
Count(name) == Cardinality({k \in 1..Len(trace) : trace[k] = name})
LastPos(name) ==
  IF Happened(name)
  THEN CHOOSE k \in 1..Len(trace) :
         trace[k] = name /\ \A j \in (k + 1)..Len(trace) : trace[j] # name
  ELSE 0
FirstPos(name) ==
  IF Happened(name)
  THEN CHOOSE k \in 1..Len(trace) :
         trace[k] = name /\ \A j \in 1..(k - 1) : trace[j] # name
  ELSE 0

KeptFraud == Cardinality(Labels(tab, kept, 1))
TrainFraud == Cardinality(Labels(tab, train, 1))
TestFraud == Cardinality(Labels(tab, test, 1))
SplitDone == Happened("split") /\ error = ""

\* C1: whenever the test partition has been scored, the outlier filter and
\* the split each ran once and before everything else of the run, and the
\* latest scaler fit, the scaling of the test partition, the latest
\* oversampling, the latest classifier fit and the scoring happened in this
\* order; the test partition was scaled with the scaler fitted on the
\* training partition; the rows scored are exactly the rows the split put
\* in the test partition and none of them is synthetic.
C1_StepOrderAndTestUntouched ==
  Happened("predict_test") =>
    /\ Count("iqr_clip") = 1 /\ Count("split") = 1
    /\ Count("scaler_transform_test") = 1 /\ Count("predict_test") = 1
    /\ LastPos("iqr_clip") < LastPos("split")
    /\ LastPos("split") < FirstPos("scaler_fit")
    /\ LastPos("split") < FirstPos("smote")
    /\ LastPos("scaler_fit") < LastPos("scaler_transform_test")
    /\ LastPos("scaler_transform_test") < LastPos("smote")
    /\ LastPos("smote") < LastPos("clf_fit")
    /\ LastPos("clf_fit") < LastPos("predict_test")
    /\ teScaled = << ScalerFit(tab, train, XCols) >>
    /\ test = kept \ train
    /\ scored = {[kind |-> "real", id |-> i] : i \in test}
    /\ \A r \in scored : r.kind # "synthetic"
    /\ DOMAIN proba = test

\* a completed run with search in which SMOTE made synthetic rows
C1_Witness ==
  pc = "done" /\ search # << >> /\ synth # {} /\ kept # Rows

\* C2: two runs whose feature tables differ only in cells of rows that are
\* in the test fold of both runs fit the same mean and scale.
C2_ScalerIgnoresTestFold ==
  (/\ prev # << >>
   /\ pc = "done"
   /\ prev[1].response # << >>
   /\ \A i \in DOMAIN req.ft.rows :
        req.ft.rows[i] # prev[1].rows[i] => i \in test /\ i \in prev[1].test)
  => SameScaler(scaler[1], prev[1].scaler[1])

\* C3 as claimed: after the split the partitions are disjoint, cover the
\* rows that survived the filter, and the fraud count of each is within one
\* row of 0.8 (train) and 0.2 (test) of the fraud count of those rows.
C3_FraudShareWithinOneRow ==
  SplitDone =>
    /\ train \cap test = {}
    /\ train \cup test = kept
    /\ Abs(5 * TrainFraud - 4 * KeptFraud) <= 5
    /\ Abs(5 * TestFraud - KeptFraud) <= 5

\* C3 as amended: the partitions are disjoint and cover the surviving rows,
\* the test partition has ceil(n/5) of the n rows, the fraud count of each
\* partition is within one row of (partition size) x (fraud rate of the
\* surviving rows), and less than two rows from its 0.8 / 0.2 share.
C3_Amended ==
  SplitDone =>
    /\ train \cap test = {}
    /\ train \cup test = kept
    /\ 5 * Cardinality(test) >= Cardinality(kept)
    /\ 5 * Cardinality(test) < Cardinality(kept) + 5
    /\ Abs(Cardinality(kept) * TrainFraud - Cardinality(train) * KeptFraud)
         <= Cardinality(kept)
    /\ Abs(Cardinality(kept) * TestFraud - Cardinality(test) * KeptFraud)
         <= Cardinality(kept)
    /\ Abs(5 * TrainFraud - 4 * KeptFraud) < 10
    /\ Abs(5 * TestFraud - KeptFraud) < 10

\* a split of a filtered frame holding both classes
C3_Witness ==
  /\ SplitDone
  /\ kept # Rows
  /\ TestFraud > 0 /\ TestFraud < Cardinality(test)
  /\ TrainFraud > 0 /\ TrainFraud < Cardinality(train)

\* C4: every metrics record has post_smote_fraud = post_smote_legit and a
\* balanced_fraud_rate of exactly one half.
C4_BalancedHalf ==
  metrics # << >> =>
    /\ metrics[1].post_smote_fraud = metrics[1].post_smote_legit
    /\ 2 * metrics[1].balanced_fraud_rate.num = metrics[1].balanced_fraud_rate.den
    /\ metrics[1].post_smote_fraud
         = Cardinality(Labels(tab, train, 1))
             + Cardinality({r \in synth : r.label = 1})

\* a returned result whose training fold had more fraud than legit rows
\* before balancing
C4_Witness ==
  /\ pc = "done"
  /\ response[1].pre_smote_fraud > response[1].pre_smote_legit
  /\ synth # {}

\* a request whose uploads have every required column
WellFormed == ValidateColumns(req.ft.cols) = "ok"
Recognized(name) ==
  \E f \in {"xgboost", "svm", "random_forest", "neural_network"} :
    Lower(name) = f

\* C5: a request naming a family that is not a recognised one ends with a
\* validation error, without having parsed the uploaded tables or fitted
\* anything, and never with a successful result of a default family.
C5_UnknownFamilyRejected ==
  (~Recognized(req.model) /\ WellFormed /\ Finished) =>
    /\ pc = "failed"
    /\ response = << >>
    /\ clf = << >>
    /\ ~Happened("read_csv")

\* C6: a feature table without the address column, or with neither flag nor
\* FLAG, is refused by load_and_prepare's validation: nothing is counted,
\* renamed, merged or filled, no row is produced, and the request ends in
\* the validation error.
C6_MissingColumnsRefused ==
  ("address" \notin req.ft.cols \/ {"flag", "FLAG"} \cap req.ft.cols = {}) =>
    /\ ~Happened("count") /\ ~Happened("rename")
    /\ ~Happened("merge") /\ ~Happened("fillna")
    /\ tab = << >> /\ counts = << >>
    /\ response = << >> /\ clf = << >>
    /\ pc \in {"start", "validate", "failed"}
    /\ pc = "failed" =>
         /\ trace = << "read_csv", "validate" >>
         /\ error = (IF "address" \notin req.ft.cols
                     THEN "ValueError: address" ELSE "ValueError: flag")

\* a request without a flag column, refused by the validation
C6_Witness ==
  /\ pc = "failed"
  /\ "address" \in req.ft.cols
  /\ {"flag", "FLAG"} \cap req.ft.cols = {}
  /\ error = "ValueError: flag"

\* both invocations completed, on the same tables, without search
SameInputTwice ==
  /\ prev # << >>
  /\ pc = "done"
  /\ prev[1].response # << >>
  /\ req.no_tune
  /\ req.ft.rows = prev[1].rows
  /\ req.ft.cols = prev[1].cols

Without(m, k) == [x \in DOMAIN m \ {k} |-> m[x]]

C8_AllLegitReturnsZeros ==
  (/\ WellFormed
   /\ \A i \in DOMAIN req.ft.rows : req.ft.rows[i].flag = 0
   /\ Finished)
  => /\ pc = "done"
     /\ response # << >>
     /\ response[1].precision.num = 0
     /\ response[1].recall.num = 0
     /\ response[1].f1.num = 0

EventsWith(status) ==
  {k \in 1..Len(metrics[1].recent_events) :
     metrics[1].recent_events[k].status = status}

\* C9: in recent_events every entry is a test-fold address, every entry's
\* status is the side of the threshold its fraud probability lies on, the
\* fraud entries are the predicted-fraud addresses of highest probability,
\* a legitimate entry's confidence is one minus its fraud probability, no
\* row is listed under both statuses, and there are at most ten entries
\* per status.
C9_EventsMatchThreshold ==
  (metrics # << >> /\ "recent_events" \in DOMAIN metrics[1]) =>
    LET ev == metrics[1].recent_events
    IN /\ \A k \in DOMAIN ev : ev[k].address \in test
       /\ \A k \in EventsWith("fraud") :
            /\ proba[ev[k].address] >= Threshold
            /\ ev[k].confidence = proba[ev[k].address]
            /\ \A j \in test :
                 (proba[j] > proba[ev[k].address])
                   => \E l \in EventsWith("fraud") : ev[l].address = j
       /\ \A k \in EventsWith("legitimate") :
            /\ proba[ev[k].address] < Threshold
            /\ ev[k].confidence = 10 - proba[ev[k].address]
       /\ \A k \in EventsWith("fraud"), l \in EventsWith("legitimate") :
            ev[k].address # ev[l].address
       /\ Cardinality(EventsWith("fraud")) <= EventsHead
       /\ Cardinality(EventsWith("legitimate")) <= EventsHead

\* C10: a search scores its candidates on the balanced training fold only
\* (the training rows and their synthetic rows, no test row); the evaluation
\* pipeline runs at most once per invocation and exactly once in a completed
\* one; with search it is run with the best-scoring candidate, which is
\* returned as best_params; without search it is run with the base
\* configuration and no best_params is returned.
C10_SearchOnTrainFoldThenOneEvaluation ==
  /\ calls <= 1
  /\ search # << >> =>
       /\ ~req.no_tune
       /\ search[1].scoredRows = train
       /\ search[1].scoredRows \cap test = {}
       /\ search[1].scoredSynth = Synthetic(tab, train, req.seed)
       /\ calls = 0 => clf = << >>
       /\ \E j \in DOMAIN search[1].candidates :
            /\ search[1].candidates[j] = search[1].best
            /\ \A k \in DOMAIN search[1].candidates :
                 CvScore(chosen, search[1].candidates[k], tab, train,
                         search[1].scoredSynth)
                   <= CvScore(chosen, search[1].best, tab, train,
                              search[1].scoredSynth)
  /\ clf # << >> =>
       /\ calls = 1
       /\ clf[1].cfg = (IF req.no_tune THEN 0 ELSE search[1].best)
  /\ pc = "done" =>
       /\ calls = 1
       /\ req.no_tune <=> search = << >>
       /\ req.no_tune <=> "best_params" \notin DOMAIN response[1]
       /\ ~req.no_tune => response[1].best_params = search[1].best

\* a completed invocation whose search preferred a candidate other than the
\* first one sampled
C10_Witness ==
  /\ pc = "done"
  /\ search # << >>
  /\ search[1].best # search[1].candidates[1]
  /\ synth # {}

\* the fields of a metrics record other than the diagnostics
ScoreFields == DOMAIN MetricsRecord(0) \ {"timestamp"}

NonIncreasing(ranking) ==
  \A k \in 1..(Len(ranking) - 1) :
    ranking[k].importance >= ranking[k + 1].importance

\* C11: a diagnostic that raises never aborts the run and leaves the scores
\* and bookkeeping fields as computed; every returned result has a
\* feature_importances field and a recent_events field, each a list, empty
\* when its computation raised; the ranking has at most 50 entries in
\* non-increasing order of importance and is empty for the SVM family.
C11_DiagnosticsDegradeToEmpty ==
  /\ Happened("diagnostics") => error = ""
  /\ pc = "done" =>
       LET r == response[1]
       IN /\ \A k \in ScoreFields : r[k] = MetricsRecord(0)[k]
          /\ "recent_events" \in DOMAIN r
          /\ "events" \in req.faults => r.recent_events = << >>
          /\ "feature_importances" \in DOMAIN r
          /\ "importances" \in req.faults => r.feature_importances = << >>
          /\ Len(r.feature_importances) <= ImportancesHead
          /\ NonIncreasing(r.feature_importances)
          /\ chosen = "svm" => r.feature_importances = << >>

\* the ledger of the request has both endpoint columns
HasEndpoints == {"from_address", "to_address"} \subseteq req.tx.cols

EdgesWith(col, a) ==
  Cardinality({k \in 1..Len(req.tx.edges) : req.tx.edges[k][col] = a})

\* C12: when the ledger has both endpoint columns, after load_and_prepare
\* every row's transaction_count is the number of edges with its address as
\* source plus the number with its address as destination (zero for a side,
\* or for both, the ledger does not hold; never a missing value), and the
\* table has the rows of the uploaded feature table, in their order.
C12_TransactionCountIsDegree ==
  (HasEndpoints /\ Happened("fillna")) =>
    /\ DOMAIN tab = DOMAIN req.ft.rows
    /\ \A i \in DOMAIN tab :
         /\ tab[i].address = i
         /\ tab[i].fraud_label = req.ft.rows[i].flag
         /\ "transaction_count" \in DOMAIN tab[i]
         /\ tab[i].transaction_count # NaN
         /\ tab[i].transaction_count
              = EdgesWith("from_address", i) + EdgesWith("to_address", i)

(***************************************************************************)
(* engineer_features on its own, on tables holding any subset of the       *)
(* canonical source columns.  A ratio a / (b + EPS) is kept as the pair    *)
(* (a, b) and log1p(x) as its argument; a quantile of order num/den is     *)
(* carried times den.  The columns avg_transaction_sent/received and       *)
(* max/min_transaction_received feed derived columns built exactly like    *)
(* sent_to_received_ratio and spread_sent and are left out.                *)
(***************************************************************************)
SourceCols ==
  {"total_sent", "total_received", "transaction_frequency_sent",
   "transaction_frequency_received", "transaction_count",
   "contract_creation", "contract_interaction", "account_balance",
   "max_transaction_sent", "min_transaction_sent"}

\* number of rows of the tables engineer_features is tried on
FeRows == 5

\* the cell values offered, per column and row
FeData ==
  { [c \in SourceCols |->
       CASE c = "transaction_frequency_sent" -> [i \in 1..FeRows |-> (i - 1) \div 2]
         [] c = "transaction_frequency_received" -> [i \in 1..FeRows |-> i \div 4]
         [] c = "account_balance" -> [i \in 1..FeRows |-> 0]
         [] c = "contract_creation" -> [i \in 1..FeRows |-> i % 2]
         [] OTHER -> [i \in 1..FeRows |-> i]],
    [c \in SourceCols |->
       CASE c = "transaction_frequency_sent" -> [i \in 1..FeRows |-> 0]
         [] c = "transaction_frequency_received" -> [i \in 1..FeRows |-> 0]
         [] c = "account_balance" -> [i \in 1..FeRows |-> 7 * i]
         [] c = "contract_interaction" -> [i \in 1..FeRows |-> 0]
         [] OTHER -> [i \in 1..FeRows |-> 2 * i + 1]],
    [c \in SourceCols |->
       CASE c = "transaction_frequency_sent" -> [i \in 1..FeRows |-> i]
         [] c = "transaction_frequency_received" -> [i \in 1..FeRows |-> 1]
         [] c = "account_balance" -> [i \in 1..FeRows |-> 3]
         [] c = "contract_creation" -> [i \in 1..FeRows |-> 0]
         [] c = "contract_interaction" -> [i \in 1..FeRows |-> 0]
         [] OTHER -> [i \in 1..FeRows |-> FeRows - i]] }

\* the tables offered: every subset of the source columns over each data
FeInputs == {[cols |-> P, data |-> d] : P \in SUBSET SourceCols, d \in FeData}

\* get_col(name): the column, or a column of zeros when it is absent
GetCol(t, c, i) == IF c \in t.cols THEN t.data[c][i] ELSE 0

\* Series.quantile(num/den) over the rows S of the column f, times den
QuantileOf(S, f, num, den) ==
  LET n   == Cardinality(S)
      lo  == (num * (n - 1)) \div den
      r   == (num * (n - 1)) % den
      vlo == KthSmallest(S, f, lo + 1)
      vhi == IF r = 0 THEN vlo ELSE KthSmallest(S, f, lo + 2)
  IN den * vlo + r * (vhi - vlo)

\* total_txn_freq
TotalTxnFreq(t, i) ==
  GetCol(t, "transaction_frequency_sent", i)
    + GetCol(t, "transaction_frequency_received", i)

\* is_high_balance: the top 5% when the column is there, else 0
IsHighBalance(t, i) ==
  IF "account_balance" \in t.cols
  THEN IF 20 * t.data["account_balance"][i]
            >= QuantileOf(1..FeRows, t.data["account_balance"], 19, 20)
       THEN 1 ELSE 0
  ELSE 0

\* q75 of freq_proxy = total_txn_freq.replace(0, nan), times 4; 0 when
\* every sum is zero
FreqQ75(t) ==
  LET tot  == [i \in 1..FeRows |-> TotalTxnFreq(t, i)]
      live == {i \in 1..FeRows : tot[i] # 0}
  IN IF live = {} THEN 0 ELSE QuantileOf(live, tot, 3, 4)

HighTxnFreqFlag(t, i) == IF 4 * TotalTxnFreq(t, i) >= FreqQ75(t) THEN 1 ELSE 0

\* the derived columns of row i
DerivedRow(t, i) ==
  [sent_to_received_ratio |->
     [num |-> GetCol(t, "total_sent", i), den |-> GetCol(t, "total_received", i)],
   interaction_with_contract_ratio |->
     [num |-> GetCol(t, "contract_creation", i)
                + GetCol(t, "contract_interaction", i),
      den |-> TotalTxnFreq(t, i) + t.data["transaction_count"][i]],
   is_high_balance |-> IsHighBalance(t, i),
   high_txn_freq_flag |-> HighTxnFreqFlag(t, i),
   net_flow |-> GetCol(t, "total_received", i) - GetCol(t, "total_sent", i),
   spread_sent |-> GetCol(t, "max_transaction_sent", i)
                     - GetCol(t, "min_transaction_sent", i),
   contract_activity_flag |->
     IF GetCol(t, "contract_creation", i) > 0
        \/ GetCol(t, "contract_interaction", i) > 0 THEN 1 ELSE 0,
   log_balance |-> [log1p |-> GetCol(t, "account_balance", i)],
   log_txn_count |-> [log1p |-> GetCol(t, "transaction_count", i)]]

\* df['transaction_count'] is the one column read without get_col
FeatureError(t) ==
  IF "transaction_count" \in t.cols THEN "ok" ELSE "KeyError: transaction_count"

EngineerColumns(t) == [i \in 1..FeRows |-> DerivedRow(t, i)]

\* every variable of the /train pipeline at rest
Parked ==
  /\ req = << >> /\ pc = "parked" /\ tab = << >> /\ counts = << >>
  /\ chosen = "" /\ orig = << >> /\ kept = {} /\ train = {} /\ test = {}
  /\ scaler = << >> /\ teScaled = << >> /\ synth = {} /\ balanced = FALSE
  /\ search = << >> /\ clf = << >> /\ proba = << >> /\ scored = {}
  /\ metrics = << >> /\ calls = 0 /\ trace = << >> /\ response = << >>
  /\ error = "" /\ clock = 0 /\ runNo = 1 /\ prev = << >>

pipelineVars == << req, pc, tab, counts, chosen, runVars, trace, response,
                   error, clock, runNo, prev >>

InitFeatures ==
  /\ Parked
  /\ store = EmptyStore
  /\ svc = << >>
  /\ clip = << >>
  /\ \E t \in FeInputs : fe = [in |-> t, pc |-> "start", out |-> << >>, err |-> ""]

\* df = engineer_features(df)
EngineerCall ==
  /\ fe.pc = "start"
  /\ fe' = IF FeatureError(fe.in) = "ok"
           THEN [fe EXCEPT !.pc = "done", !.out = << EngineerColumns(fe.in) >>]
           ELSE [fe EXCEPT !.pc = "failed", !.err = FeatureError(fe.in)]
  /\ UNCHANGED << pipelineVars, store, svc, clip >>

NextFeatures == EngineerCall

SpecFeatures == InitFeatures /\ [][NextFeatures]_vars

\* the table with every source column, the absent ones as zeros
ZeroFilled(t) ==
  [cols |-> SourceCols,
   data |-> [c \in SourceCols |->
               IF c \in t.cols THEN t.data[c] ELSE [i \in 1..FeRows |-> 0]]]

\* C13: for every subset of the source columns present in the table,
\* engineer_features returns (it does not raise) and the derived columns
\* are those it computes on the table with each absent column set to zero.
C13_AbsentColumnsReadAsZero ==
  fe # << >> /\ fe.pc # "start" =>
    /\ fe.pc = "done"
    /\ fe.out = << EngineerColumns(ZeroFilled(fe.in)) >>

\* C18: high_txn_freq_flag is 1 exactly for the rows whose sum
\* transaction_frequency_sent + transaction_frequency_received is at least
\* the 75th percentile of that sum over all rows of the table.
C18_FlagIsTopQuartileOfAllRows ==
  fe # << >> /\ fe.pc = "done" =>
    LET tot == [i \in 1..FeRows |-> TotalTxnFreq(fe.in, i)]
    IN \A i \in 1..FeRows :
         fe.out[1][i].high_txn_freq_flag = 1
           <=> 4 * tot[i] >= QuantileOf(1..FeRows, tot, 3, 4)

\* the fields every family's result is claimed to have
CommonFields ==
  DOMAIN MetricsRecord(0)
    \cup {"feature_importances", "recent_events", "used_model"}

\* C14: whatever the family, the filter, the split and the seeding of
\* scaler input and oversampler are the same functions of table and seed; a
\* search samples the same number of candidates and is seeded with the
\* caller's seed; the result has the same set of fields.
C14_SamePipelineAcrossFamilies ==
  /\ (Happened("split") /\ error = "") =>
       /\ kept = IqrClip(tab, Rows, ContinuousLike)
       /\ train = SplitTrain(tab, kept, req.seed)
       /\ test = SplitTest(tab, kept, req.seed)
  /\ scaler # << >> => scaler[1] = ScalerFit(tab, train, XCols)
  /\ balanced => synth = Synthetic(tab, train, req.seed)
  /\ search # << >> =>
       /\ search[1].seed = req.seed
       /\ Len(search[1].candidates) = NIter
  /\ (pc = "done" /\ req.faults = {}) =>
       DOMAIN response[1]
         = CommonFields \cup (IF req.no_tune THEN {} ELSE {"best_params"})

\* C19: in every returned result the class counts before and after
\* oversampling add up to the training sizes, training and test sizes add
\* up to the rows the outlier filter kept (at most original_total), the
\* majority count is unchanged by oversampling and the minority count does
\* not decrease, and original_fraud <= original_total.
C19_BookkeepingConsistent ==
  response # << >> =>
    LET r   == response[1]
        maj == IF r.pre_smote_fraud <= r.pre_smote_legit
               THEN "legit" ELSE "fraud"
    IN /\ r.pre_smote_fraud + r.pre_smote_legit = r.train_samples_pre_smote
       /\ r.post_smote_fraud + r.post_smote_legit = r.train_samples_post_smote
       /\ r.train_samples_pre_smote + r.test_samples = Cardinality(kept)
       /\ Cardinality(kept) <= r.original_total
       /\ r.original_total = Len(req.ft.rows)
       /\ IF maj = "legit"
          THEN /\ r.post_smote_legit = r.pre_smote_legit
               /\ r.post_smote_fraud >= r.pre_smote_fraud
          ELSE /\ r.post_smote_fraud = r.pre_smote_fraud
               /\ r.post_smote_legit >= r.pre_smote_legit
       /\ r.original_fraud <= r.original_total
       /\ r.original_fraud >= 0

\* a returned result of a run whose filter dropped rows and whose
\* oversampler added rows
C19_Witness ==
  /\ response # << >>
  /\ response[1].train_samples_post_smote > response[1].train_samples_pre_smote
  /\ response[1].train_samples_pre_smote + response[1].test_samples
       < response[1].original_total

\* the store that holds the one result resp and nothing else
HoldsOnly(resp) ==
  [latest |-> << resp >>,
   history |-> << resp >>,
   activity |-> resp.recent_events,
   models |-> [k \in {resp.used_model} |-> resp]]

\* the store as the requests before the current one left it
StoreBefore ==
  IF prev # << >> /\ prev[1].response # << >>
  THEN HoldsOnly(prev[1].response[1])
  ELSE EmptyStore

\* C20: a request that has failed, or has not completed yet, leaves latest
\* result, history, activity log and per-family summary as they were before
\* it; a request that completes after a failed one leaves the store that
\* holds its result alone.
C20_FailedRequestLeavesStore ==
  /\ pc # "done" => store = StoreBefore
  /\ (pc = "done" /\ prev # << >> /\ prev[1].error # "") =>
       store = HoldsOnly(response[1])

\* a request completed after a refused one
C20_CompletedAfterFailed ==
  /\ pc = "done"
  /\ prev # << >>
  /\ prev[1].error # ""
  /\ store.latest = response

\* a request failed after a completed one
C20_Witness ==
  /\ pc = "failed"
  /\ prev # << >>
  /\ prev[1].response # << >>
  /\ store.latest = prev[1].response

(***************************************************************************)
(* The outlier filter on its own: train_xgb's choice of the filtered       *)
(* columns and iqr_clip, on frames that hold missing values.               *)
(***************************************************************************)
ClipRows == 6

\* the value patterns of a continuous column: spread, one far value, a
\* constant column with one other value, a far value at either end, a value
\* on the upper fence (Q1 = 4, Q3 = 8, fence 14)
ClipPatterns ==
  << << 1, 2, 3, 4, 5, 6 >>,
     << 1, 2, 2, 1, 2, 40 >>,
     << 5, 5, 5, 5, 5, 6 >>,
     << 0, 20, 21, 21, 22, 50 >>,
     << 1, 4, 4, 8, 8, 14 >> >>

\* the value of row i under pattern p
ClipValue(p, i) == ClipPatterns[p][((i - 1) % Len(ClipPatterns[p])) + 1]

\* the sets of rows whose cell is missing
ClipMissing == { {}, {1}, {6}, {2, 6}, 1..ClipRows }

\* a frame Xy: the numeric columns of X and the label; each flag-like
\* column and the label hold one row that differs from all others
ClipFrame(p, q, m, n, high) ==
  [i \in 1..ClipRows |->
     [total_sent |-> IF i \in m THEN NaN ELSE ClipValue(p, i),
      transaction_count |-> i % 3,
      net_flow |-> IF i \in n THEN NaN ELSE ClipValue(q, i) - 3,
      is_high_balance |-> IF high /\ i = 1 THEN 1 ELSE 0,
      high_txn_freq_flag |-> IF i = 2 THEN 1 ELSE 0,
      contract_activity_flag |-> IF i = 3 THEN 1 ELSE 0,
      fraud_label |-> IF i = 4 THEN 1 ELSE 0]]

ClipInputs ==
  {ClipFrame(p, q, m, n, high) :
     p \in 1..Len(ClipPatterns), q \in 1..2, m \in ClipMissing,
     n \in {{}, {3}}, high \in BOOLEAN}

InitClip ==
  /\ Parked
  /\ store = EmptyStore
  /\ svc = << >>
  /\ fe = << >>
  /\ \E t \in ClipInputs : clip = [in |-> t, pc |-> "start", out |-> << >>]

\* Xy = iqr_clip(Xy, continuous_like, k=1.5)
ClipCall ==
  /\ clip.pc = "start"
  /\ clip' = [clip EXCEPT
                !.pc = "returned",
                !.out = TakeRows(clip.in,
                                 IqrClip(clip.in, DOMAIN clip.in,
                                         ContinuousLike))]
  /\ UNCHANGED << pipelineVars, store, svc, fe >>

NextClip == ClipCall

SpecClip == InitClip /\ [][NextClip]_vars

\* the value v lies in [Q1 - 1.5 IQR, Q3 + 1.5 IQR] of column c of frame t
InsideFences(t, c, v) ==
  LET q1 == Quantile4(t, DOMAIN t, c, 1)
      q3 == Quantile4(t, DOMAIN t, c, 3)
  IN /\ 8 * v >= 2 * q1 - 3 * (q3 - q1)
     /\ 8 * v <= 2 * q3 + 3 * (q3 - q1)

\* C17: the frame the filter returns holds exactly the rows of its input
\* whose value in each of total_sent, transaction_count, net_flow and
\* is_high_balance (the numeric columns without flag, label, binary or bool
\* in the name) is missing or inside the closed fences computed over the
\* whole input; the flag columns and the label are not filtered; a kept row
\* keeps its index, its feature values and its label.
C17_KeepsExactlyRowsInsideFences ==
  (clip # << >> /\ clip.pc = "returned") =>
    LET t == clip.in
        K == {i \in DOMAIN t :
                \A c \in {"total_sent", "transaction_count", "net_flow",
                          "is_high_balance"} :
                   t[i][c] = NaN \/ InsideFences(t, c, t[i][c])}
    IN clip.out = [i \in K |-> t[i]]

\* the filter kept a row with a missing value, dropped another row, and
\* kept the only fraud row and the only row of a flag column's value 1
C17_Witness ==
  /\ clip # << >>
  /\ clip.pc = "returned"
  /\ \E i \in DOMAIN clip.out : clip.in[i].total_sent = NaN
  /\ DOMAIN clip.out # DOMAIN clip.in
  /\ {2, 4} \subseteq DOMAIN clip.out

(***************************************************************************)
(* The service around the store.  train_endpoint is a coroutine without an *)
(* await in its body: once the event loop has started a handler it runs it *)
(* to its return before it starts another, however many requests have     *)
(* arrived.  The four getters are plain functions, which the framework     *)
(* runs in worker threads: a getter reads its global at any moment, also   *)
(* between two statements of a running handler.  get_metrics_history       *)
(* returns the list object itself, whose entries are encoded on the event  *)
(* loop, that is, while no handler is running.                             *)
(*                                                                         *)
(* A result is identified by the number of its request; the results of a   *)
(* session follow a plan: how many requests, how many events each result   *)
(* carries, and which pair of getters a dashboard polls.                   *)
(***************************************************************************)
MaxRequests == 26
MaxInFlight == 2

\* the two rankings of fit_and_eval hold at most EventsHead rows each
EventsPerRun == 2 * EventsHead

ServicePlans ==
  {[n |-> MaxRequests, events |-> EventsPerRun, poll |-> "none"]}
    \cup {[n |-> 3, events |-> EventsPerRun, poll |-> k] :
            k \in {"summary", "history", "activity"}}
    \cup {[n |-> 3, events |-> 0, poll |-> k] : k \in {"summary", "activity"}}

\* the family of the k-th request of a session
FamilyOf(k) ==
  IF k % 3 = 1 THEN "xgboost" ELSE IF k % 3 = 2 THEN "svm" ELSE "random_forest"

\* response_metrics of the k-th request
ServiceResult(plan, k) ==
  [used_model |-> FamilyOf(k),
   timestamp |-> k,
   recent_events |-> [j \in 1..plan.events |-> [run |-> k, rank |-> j]]]

\* what a getter that has not run yet has returned
Unread == << >>

InitService ==
  /\ Parked
  /\ fe = << >>
  /\ clip = << >>
  /\ store = EmptyStore
  /\ \E plan \in ServicePlans :
       svc = [plan |-> plan, arrived |-> 0, started |-> 0, cur |-> "idle",
              resp |-> << >>, log |-> << >>,
              first |-> Unread, second |-> Unread]

ServiceFrame == UNCHANGED << pipelineVars, fe, clip >>

\* a client posts a /train request
Submit ==
  /\ svc.arrived < svc.plan.n
  /\ svc.arrived - Len(svc.log) < MaxInFlight
  /\ svc' = [svc EXCEPT !.arrived = @ + 1]
  /\ UNCHANGED store
  /\ ServiceFrame

\* the event loop starts the handler of the next request; the handler loads,
\* trains and converts its metrics
HandlerStart ==
  /\ svc.cur = "idle"
  /\ svc.started < svc.arrived
  /\ svc' = [svc EXCEPT !.started = @ + 1,
                        !.cur = "computed",
                        !.resp = << ServiceResult(svc.plan, svc.started + 1) >>]
  /\ UNCHANGED store
  /\ ServiceFrame

\* LATEST_METRICS = response_metrics
SetLatest ==
  /\ svc.cur = "computed"
  /\ store' = [store EXCEPT !.latest = svc.resp]
  /\ svc' = [svc EXCEPT !.cur = "latest"]
  /\ ServiceFrame

\* MODEL_METRICS[model_key] = response_metrics
SetModel ==
  /\ svc.cur = "latest"
  /\ store' = [store EXCEPT
                 !.models = PutModel(@, svc.resp[1].used_model, svc.resp[1])]
  /\ svc' = [svc EXCEPT !.cur = "model"]
  /\ ServiceFrame

\* METRICS_HISTORY.append(response_metrics)
AppendHistory ==
  /\ svc.cur = "model"
  /\ store' = [store EXCEPT !.history = Append(@, svc.resp[1])]
  /\ svc' = [svc EXCEPT !.cur = "appended"]
  /\ ServiceFrame

\* a trim that keeps the oldest entries
TrimmedOldest(h) == Head_n(h, HistoryKeep)

\* if len(METRICS_HISTORY) > 24: METRICS_HISTORY[:] = METRICS_HISTORY[-24:]
Trimmed(h) == IF Len(h) > HistoryKeep THEN Tail_n(h, HistoryKeep) ELSE h

TrimHistory ==
  /\ svc.cur = "appended"
  /\ store' = [store EXCEPT !.history = Trimmed(@)]
  /\ svc' = [svc EXCEPT !.cur = "trimmed"]
  /\ ServiceFrame

\* ACTIVITY_LOG = [events of this run] + ACTIVITY_LOG
PrependActivity ==
  /\ svc.cur = "trimmed"
  /\ store' = [store EXCEPT !.activity = svc.resp[1].recent_events \o @]
  /\ svc' = [svc EXCEPT !.cur = "prepended"]
  /\ ServiceFrame

\* ACTIVITY_LOG = ACTIVITY_LOG[:50]
TrimActivity ==
  /\ svc.cur = "prepended"
  /\ store' = [store EXCEPT !.activity = Head_n(@, ActivityKeep)]
  /\ svc' = [svc EXCEPT !.cur = "capped"]
  /\ ServiceFrame

\* return {"ok": True, "metrics": response_metrics}
HandlerReturn ==
  /\ svc.cur = "capped"
  /\ svc' = [svc EXCEPT !.cur = "idle",
                        !.resp = << >>,
                        !.log = Append(@, svc.resp[1].timestamp)]
  /\ UNCHANGED store
  /\ ServiceFrame

\* the numbers of the results in a list of results
Stamps(h) == [i \in 1..Len(h) |-> h[i].timestamp]

\* GET /metrics: the number of the latest result, 0 for None
GetLatest ==
  /\ svc.plan.poll \in {"summary", "history"}
  /\ svc.first = Unread
  /\ svc' = [svc EXCEPT
               !.first = << IF store.latest = << >> THEN 0
                            ELSE store.latest[1].timestamp >>]
  /\ UNCHANGED store
  /\ ServiceFrame

\* GET /models/metrics, after GET /metrics: per family the timestamp of its
\* summary
GetModelMetrics ==
  /\ svc.plan.poll = "summary"
  /\ svc.first # Unread
  /\ svc.second = Unread
  /\ svc' = [svc EXCEPT
               !.second = << [f \in DOMAIN store.models |->
                                store.models[f].timestamp] >>]
  /\ UNCHANGED store
  /\ ServiceFrame

\* GET /metrics/history, after GET /metrics: the entries of the list as the
\* event loop encodes them
GetHistory ==
  /\ svc.plan.poll = "history"
  /\ svc.first # Unread
  /\ svc.second = Unread
  /\ svc.cur = "idle"
  /\ svc' = [svc EXCEPT !.second = << Stamps(store.history) >>]
  /\ UNCHANGED store
  /\ ServiceFrame

\* GET /activity: the list ACTIVITY_LOG is bound to at that moment
GetActivity ==
  /\ svc.plan.poll = "activity"
  /\ svc.first = Unread
  /\ svc' = [svc EXCEPT !.first = << store.activity >>]
  /\ UNCHANGED store
  /\ ServiceFrame

NextService ==
  \/ Submit
  \/ HandlerStart
  \/ SetLatest
  \/ SetModel
  \/ AppendHistory
  \/ TrimHistory
  \/ PrependActivity
  \/ TrimActivity
  \/ HandlerReturn
  \/ GetLatest
  \/ GetModelMetrics
  \/ GetHistory
  \/ GetActivity

SpecService == InitService /\ [][NextService]_vars

\* the results of the completed requests, oldest first
Completed == [i \in 1..Len(svc.log) |-> ServiceResult(svc.plan, svc.log[i])]

RECURSIVE EventsNewestFirst(_)
EventsNewestFirst(h) ==
  IF h = << >> THEN << >>
  ELSE h[Len(h)].recent_events \o EventsNewestFirst(SubSeq(h, 1, Len(h) - 1))

Quiet == svc # << >> /\ svc.cur = "idle"

C16_UpdateIsIndivisible ==
  svc # << >> =>
    /\ svc.started - Len(svc.log) <= 1
    /\ svc.cur = "idle" => Len(store.history) = Min2(Len(svc.log), HistoryKeep)
    /\ (svc.plan.poll = "history" /\ svc.second # Unread /\ svc.first # << 0 >>)
         => \E i \in 1..Len(svc.second[1]) : svc.second[1][i] = svc.first[1]
    /\ (svc.plan.poll = "summary" /\ svc.second # Unread /\ svc.first # << 0 >>)
         => /\ FamilyOf(svc.first[1]) \in DOMAIN svc.second[1]
            /\ svc.second[1][FamilyOf(svc.first[1])] >= svc.first[1]
    /\ (svc.plan.poll = "activity" /\ svc.first # Unread) =>
         Len(svc.first[1]) <= ActivityKeep

====
